---- MODULE Spec2Model ----
(***************************************************************************)
(* Model of the in-memory session coordinator of ChronoClashV2-Backend:    *)
(* GameStateManager (rooms, players, playerToRoom) and the socket handlers *)
(* of controllers/gameController.js that add behaviour of their own        *)
(* (disconnect, the ready countdown timer).                                *)
(*                                                                         *)
(* A Map is a function whose domain is the set of keys present.  Fields    *)
(* that no operation reads back (a room's name, isConnected, spectators,   *)
(* createdAt, startTime, endTime, maxHealth, maxMana) are left out of the  *)
(* records;                                                                *)
(* maxPlayers is the constant 2.                                           *)
(***************************************************************************)
EXTENDS Integers, Sequences, FiniteSets, TLC

VARIABLES rooms, players, playerToRoom, timers, now

vars == <<rooms, players, playerToRoom, timers, now>>

----------------------------------------------------------------------------
(* Bounds of the model *)

MaxTime == 2
MaxTurns == 3
MaxTimers == 2

(* Program constants *)
maxPlayers == 2

Null == "null"
(* Socket ids.  The last two agree on their first five characters, the     *)
(* part of a socket id that the default name keeps.                        *)
Players == {"p1", "p2", "socket1", "socket2"}
RoomIds == {"R1", "R2"}

(* The scopes of the specifications: the match and the countdown are      *)
(* explored with two connections and one room code, the lobby and the      *)
(* reaper with two connections and two room codes.                         *)
MatchPlayers == {"p1", "p2"}
MatchRooms == {"R1"}
LobbyPlayers == {"p1", "p2"}
ReaperPlayers == {"p1", "p2"}
IdentityPlayers == {"socket1", "socket2"}

(* The character catalog is data supplied by the caller; two characters    *)
(* with small stats stand for it.                                          *)
CharIds == {"c1"}
Characters ==
  [c \in CharIds |->
     [id |-> c, health |-> 2, mana |-> 1,
      abilities |-> << [id |-> "a1", manaCost |-> 1, damage |-> 1],
                       [id |-> "a2", manaCost |-> 0, damage |-> 3] >>]]

AbilityIds == {"a1", "a2", "a3"}
Actions == [type : {"ability"}, abilityId : AbilityIds]
             \cup {[type |-> "surrender", abilityId |-> Null],
                   [type |-> "taunt", abilityId |-> Null]}
(* The actions that end a match at once: the ability whose damage exceeds  *)
(* a character's health, and the surrender.                                *)
Finishers == {[type |-> "ability", abilityId |-> "a2"],
              [type |-> "surrender", abilityId |-> Null]}
Timeouts == {0, 1}

(* The partial records handed to updatePlayer: the supplied fields are     *)
(* merged as they are, no value is tested.  Updates has the fields the     *)
(* manager itself passes, with a health inside a character's range and a   *)
(* mana above it; FlagUpdates and KeepAlive are the updates of the         *)
(* readiness flag alone.  Identities has the id of the other connection,   *)
(* an id no record is under and a name; NegativeStats a health below 0,    *)
(* which no call of the repository passes.                                 *)
Updates == {[health |-> 1], [mana |-> 2], [character |-> Null]}
             \cup {[isReady |-> b] : b \in BOOLEAN}
FlagUpdates == {[isReady |-> b] : b \in BOOLEAN}
KeepAlive == {[isReady |-> FALSE]}
Identities == {[id |-> "socket2"], [id |-> "p3"], [name |-> "Ann"]}
NegativeStats == {[health |-> -1]}

(* The playerData handed to registerPlayer by a caller other than          *)
(* handleUserConnection: no name, the empty name, a name.                  *)
PlayerData == {[name |-> Null], [name |-> ""], [name |-> "Ann"]}

(* Mutant: no clamp, the second argument as it is. *)
Max_NoClamp(a, b) == b

Max(a, b) == IF a >= b THEN a ELSE b

----------------------------------------------------------------------------
(* The three maps as one value, so that a method calling another composes. *)

State(rs, ps, p2r) == [rooms |-> rs, players |-> ps, playerToRoom |-> p2r]

Cur == State(rooms, players, playerToRoom)

(* Map.has, Map.get (Null stands for undefined), Map.set, Map.delete *)
Has(map, key) == key \in DOMAIN map
Get(map, key) == IF key \in DOMAIN map THEN map[key] ELSE Null
Put(map, key, val) == [k \in DOMAIN map \cup {key} |-> IF k = key THEN val ELSE map[k]]
Del(map, key) == [k \in DOMAIN map \ {key} |-> map[k]]

(* A method's return value, with the fields a result may carry; Threw is   *)
(* an uncaught TypeError instead of a return.                              *)
Ok == [success |-> TRUE, error |-> Null, roomClosed |-> FALSE, noRoomFound |-> FALSE,
       allReady |-> FALSE, gameOver |-> FALSE, winner |-> Null, threw |-> FALSE]
Fail(msg) == [Ok EXCEPT !.success = FALSE, !.error = msg]
Threw == [Ok EXCEPT !.success = FALSE, !.error = "TypeError", !.threw = TRUE]

Ret(S, res) == [S |-> S, res |-> res]

----------------------------------------------------------------------------
(* Player registry *)

(* String.prototype.substring(start, end) for 0 <= start <= end *)
substring(str, start, end) ==
  SubSeq(str, start + 1, IF end < Len(str) THEN end ELSE Len(str))

(* `Player_${socketId.substring(0, 5)}` *)
DefaultName(socketId) == "Player_" \o substring(socketId, 0, 5)

(* The record keeps the fields the manager reads back; isConnected,        *)
(* maxHealth and maxMana are written and never read.  playerData.name ||   *)
(* default: a missing or empty name gives the default name.                *)
registerPlayer(S, socketId, playerData) ==
  Ret([S EXCEPT !.players = Put(@, socketId,
         [id |-> socketId,
          name |-> IF playerData.name \notin {Null, ""}
                   THEN playerData.name ELSE DefaultName(socketId),
          character |-> Null, isReady |-> FALSE, health |-> 0, mana |-> 0,
          lastActive |-> now])],
      Ok)

(* Object.assign(player, updates); player.lastActive = Date.now(): every   *)
(* field of the record can be overwritten, id and name included, and the   *)
(* key of the map stays socketId.  The players map after the call; the     *)
(* callers test the null return (unknown id) with Has.                     *)
updatePlayer(S, socketId, updates) ==
  IF ~Has(S.players, socketId) THEN S.players
  ELSE LET player == S.players[socketId]
           merged == [f \in DOMAIN player |->
                        IF f \in DOMAIN updates THEN updates[f] ELSE player[f]]
       IN [S.players EXCEPT ![socketId] = [merged EXCEPT !.lastActive = now]]

----------------------------------------------------------------------------
(* Room registry *)

Remove(seq, id) == SelectSeq(seq, LAMBDA x : x # id)

Contains(seq, id) == \E i \in 1..Len(seq) : seq[i] = id

(* Mutant: the emptiness test never fires, the room is kept. *)
RoomCloses_Never(room, roster, socketId) == socketId = room.hostId /\ Len(roster) < 0

(* The host left and nobody remains: the room is deleted. *)
RoomCloses(room, roster, socketId) == socketId = room.hostId /\ Len(roster) = 0

removePlayerFromRoom(S, socketId, roomId) ==
  IF ~Has(S.rooms, roomId) THEN Ret(S, Fail("Room not found"))
  ELSE
    LET room == S.rooms[roomId]
        roster == Remove(room.players, socketId)
        p2r == Del(S.playerToRoom, socketId)
        hostLeft == socketId = room.hostId
        hostId1 == IF hostLeft /\ Len(roster) > 0 THEN roster[1] ELSE room.hostId
        guest1 == IF hostLeft /\ Len(roster) > 0 /\ room.guestId = hostId1
                  THEN Null ELSE room.guestId
        guest2 == IF socketId = guest1 THEN Null ELSE guest1
        ending == room.status = "in-progress"
        room1 == [room EXCEPT
                    !.players = roster,
                    !.hostId = hostId1,
                    !.guestId = guest2,
                    !.status = IF ending THEN "completed" ELSE @,
                    !.gameData.winner =
                        IF ending THEN (IF Len(roster) > 0 THEN roster[1] ELSE Null)
                        ELSE @,
                    !.lastActivity = now]
    IN IF RoomCloses(room, roster, socketId)
       THEN Ret(State(Del(S.rooms, roomId), S.players, p2r),
                [Ok EXCEPT !.roomClosed = TRUE])
       ELSE Ret(State([S.rooms EXCEPT ![roomId] = room1], S.players, p2r), Ok)

leaveAllRooms(S, socketId) ==
  IF Has(S.playerToRoom, socketId)
  THEN removePlayerFromRoom(S, socketId, S.playerToRoom[socketId])
  ELSE Ret(S, [Ok EXCEPT !.noRoomFound = TRUE])

unregisterPlayer(S, socketId) ==
  LET S1 == IF Has(S.playerToRoom, socketId)
            THEN removePlayerFromRoom(S, socketId, S.playerToRoom[socketId]).S
            ELSE S
  IN Ret(State(S1.rooms, Del(S1.players, socketId), Del(S1.playerToRoom, socketId)),
         Ok)

NewRoom(hostId, isPrivate) ==
  [hostId |-> hostId, guestId |-> Null, status |-> "waiting",
   isPrivate |-> isPrivate, players |-> <<hostId>>,
   gameData |-> [turnCount |-> 0, currentTurn |-> Null, battleLog |-> <<>>,
                 winner |-> Null],
   lastActivity |-> now]

(* roomId is roomData.roomId when supplied, else the code generateRoomCode *)
(* drew, which is no live room's code at the time of the draw.             *)
createRoom(S, hostId, roomId, isPrivate) ==
  LET S1 == leaveAllRooms(S, hostId).S
  IN IF ~Has(S1.players, hostId) THEN Ret(S1, Fail("null"))
     ELSE Ret(State(Put(S1.rooms, roomId, NewRoom(hostId, isPrivate)),
                    S1.players,
                    Put(S1.playerToRoom, hostId, roomId)),
              Ok)

(* Mutant: the player is forced out of its prior room before the checks.   *)
addPlayerToRoom_LeaveFirst(S, socketId, roomId) ==
  LET S1 == leaveAllRooms(S, socketId).S
      p2r == Put(S1.playerToRoom, socketId, roomId)
  IN IF ~Has(S1.rooms, roomId) THEN Ret(S1, Fail("Room not found"))
     ELSE IF ~Has(S1.players, socketId) THEN Ret(S1, Fail("Player not found"))
     ELSE IF Len(S1.rooms[roomId].players) >= maxPlayers THEN Ret(S1, Fail("Room is full"))
     ELSE IF S1.rooms[roomId].status # "waiting"
          THEN Ret(S1, Fail("Room is not accepting new players"))
     ELSE LET roster == Append(S1.rooms[roomId].players, socketId)
          IN Ret(State([S1.rooms EXCEPT ![roomId].players = roster,
                                        ![roomId].guestId =
                                            IF Len(roster) = 2 THEN socketId ELSE @,
                                        ![roomId].lastActivity = now],
                       S1.players, p2r), Ok)

(* The local variable room keeps the object read at entry: when            *)
(* leaveAllRooms deleted that room from the registry, the push and the     *)
(* guest assignment go to the detached object and the registry keeps no    *)
(* room under roomId, while playerToRoom.set still runs.                   *)
addPlayerToRoom(S, socketId, roomId) ==
  IF ~Has(S.rooms, roomId) THEN Ret(S, Fail("Room not found"))
  ELSE IF ~Has(S.players, socketId) THEN Ret(S, Fail("Player not found"))
  ELSE IF Len(S.rooms[roomId].players) >= maxPlayers THEN Ret(S, Fail("Room is full"))
  ELSE IF S.rooms[roomId].status # "waiting"
       THEN Ret(S, Fail("Room is not accepting new players"))
  ELSE
    LET S1 == leaveAllRooms(S, socketId).S
        p2r == Put(S1.playerToRoom, socketId, roomId)
    IN IF ~Has(S1.rooms, roomId)
       THEN Ret(State(S1.rooms, S1.players, p2r), Ok)
       ELSE LET room == S1.rooms[roomId]
                roster == Append(room.players, socketId)
                room1 == [room EXCEPT
                            !.players = roster,
                            !.guestId = IF Len(roster) = 2 THEN socketId ELSE @,
                            !.lastActivity = now]
            IN Ret(State([S1.rooms EXCEPT ![roomId] = room1], S1.players, p2r), Ok)

(* Mutant: every non-private room is listed. *)
getPublicRooms_AnyPublic(S) == {r \in RoomIds : Has(S.rooms, r) /\ ~S.rooms[r].isPrivate}

getPublicRooms(S) ==
  {r \in RoomIds : Has(S.rooms, r)
                   /\ ~S.rooms[r].isPrivate
                   /\ S.rooms[r].status = "waiting"
                   /\ Len(S.rooms[r].players) < maxPlayers}

----------------------------------------------------------------------------
(* Match engine *)

Touch(S, roomId) == [S.rooms EXCEPT ![roomId].lastActivity = now]

setPlayerCharacter(S, socketId, c) ==
  LET ps == updatePlayer(S, socketId,
                         [character |-> c,
                          health |-> Characters[c].health,
                          mana |-> Characters[c].mana,
                          isReady |-> FALSE])
      roomId == Get(S.playerToRoom, socketId)
  IN IF ~Has(S.players, socketId) THEN Ret(S, Fail("Player not found"))
     ELSE IF roomId = Null
          THEN Ret(State(S.rooms, ps, S.playerToRoom), Fail("Player not in a room"))
     ELSE IF ~Has(S.rooms, roomId)
          THEN Ret(State(S.rooms, ps, S.playerToRoom), Fail("Room not found"))
     ELSE Ret(State(Touch(S, roomId), ps, S.playerToRoom), Ok)

(* room.players.every(id => this.players.get(id).isReady): every stops at  *)
(* the first occupant that is not ready, and reading isReady of an         *)
(* occupant with no player record throws.                                  *)
EveryReadyThrows(ps, roster) ==
  \E i \in 1..Len(roster) :
     /\ ~Has(ps, roster[i])
     /\ \A j \in 1..(i - 1) : Has(ps, roster[j]) /\ ps[roster[j]].isReady

EveryReady(ps, roster) ==
  \A i \in 1..Len(roster) : Has(ps, roster[i]) /\ ps[roster[i]].isReady

AllReady(ps, roster) == Len(roster) = 2 /\ EveryReady(ps, roster)

(* Mutant: the status is not looked at. *)
BecomesReady_AnyStatus(room, allReady) == allReady

BecomesReady(room, allReady) == allReady /\ room.status = "waiting"

setPlayerReady(S, socketId, isReady) ==
  LET ps == updatePlayer(S, socketId, [isReady |-> isReady])
      roomId == Get(S.playerToRoom, socketId)
  IN IF ~Has(S.players, socketId) THEN Ret(S, Fail("Player not found"))
     ELSE IF roomId = Null
          THEN Ret(State(S.rooms, ps, S.playerToRoom), Fail("Player not in a room"))
     ELSE IF ~Has(S.rooms, roomId)
          THEN Ret(State(S.rooms, ps, S.playerToRoom), Fail("Room not found"))
     ELSE
       LET room == S.rooms[roomId]
           allReady == AllReady(ps, room.players)
           room1 == [room EXCEPT
                       !.status = IF BecomesReady(room, allReady) THEN "ready" ELSE @,
                       !.lastActivity = now]
       IN IF Len(room.players) = 2 /\ EveryReadyThrows(ps, room.players)
          THEN Ret(State(S.rooms, ps, S.playerToRoom), Threw)
          ELSE Ret(State([S.rooms EXCEPT ![roomId] = room1], ps, S.playerToRoom),
                   [Ok EXCEPT !.allReady = allReady])

(* Building the battle log reads the host's name: with no player record    *)
(* for the host that throws after room.status has been assigned and        *)
(* before room.gameData is.                                                *)
startGame(S, roomId) ==
  IF ~Has(S.rooms, roomId) THEN Ret(S, Fail("Room not found"))
  ELSE
    LET room == S.rooms[roomId]
    IN IF room.status # "ready" THEN Ret(S, Fail("Not all players are ready"))
       ELSE IF Len(room.players) # 2
            THEN Ret(S, Fail("Need exactly 2 players to start"))
       ELSE IF ~Has(S.players, room.hostId)
            THEN Ret([S EXCEPT !.rooms[roomId].status = "in-progress"], Threw)
       ELSE Ret([S EXCEPT !.rooms[roomId] =
                   [room EXCEPT
                      !.status = "in-progress",
                      !.gameData = [turnCount |-> 1,
                                    currentTurn |-> room.hostId,
                                    battleLog |-> << <<"Battle started!">>,
                                                     <<"goes first!", S.players[room.hostId].name>> >>,
                                    winner |-> Null],
                      !.lastActivity = now]],
                Ok)

(* abilities.find(a => a.id === abilityId): the first match *)
Found(abilities, abilityId) == \E i \in 1..Len(abilities) : abilities[i].id = abilityId
Find(abilities, abilityId) ==
  LET hits == {i \in 1..Len(abilities) : abilities[i].id = abilityId}
  IN abilities[CHOOSE i \in hits : \A j \in hits : i <= j]

Log(S, roomId, entries) ==
  [S EXCEPT !.rooms[roomId].gameData.battleLog = @ \o entries]

(* actingPlayer and targetPlayer are references into the players map, so   *)
(* they are passed by id and the two writes are applied in order.          *)
processAbilityUse(S, actingId, targetId, action, roomId) ==
  LET acting == S.players[actingId]
      found == acting.character # Null
               /\ Found(Characters[acting.character].abilities, action.abilityId)
      ability == Find(Characters[acting.character].abilities, action.abilityId)
  IN IF ~found THEN Ret(S, Fail("Ability not found"))
     ELSE IF acting.mana < ability.manaCost THEN Ret(S, Fail("Not enough mana"))
     ELSE
       LET S1 == [S EXCEPT !.players[actingId].mana = Max(0, @ - ability.manaCost)]
           damage == ability.damage
           S2 == [S1 EXCEPT !.players[targetId].health = Max(0, @ - damage)]
       IN Ret(Log(S2, roomId, << <<"used", S2.players[actingId].name, ability.id>>,
                                 <<"took", S2.players[targetId].name, damage>> >>),
              Ok)

processSurrender(S, actingId, targetId, roomId) ==
  Ret(Log([S EXCEPT !.players[actingId].health = 0], roomId,
          << <<"surrendered!", S.players[actingId].name>> >>),
      Ok)

(* Mutant: any room past the lobby takes actions. *)
InProgress_NotWaiting(room) == room.status # "waiting"

InProgress(room) == room.status = "in-progress"

(* return { success: true, ...result, room }: the fields of the dispatched *)
(* result override success, so a rejected ability comes back as a failure  *)
(* after the game-over check or the turn change has run.  The winner is    *)
(* the id field of a player's record, not the key it was looked up by;     *)
(* when no record is under that id, reading the winner's name throws after *)
(* status and winner have been assigned and before the log line and        *)
(* lastActivity are.                                                       *)
processGameAction(S, socketId, action) ==
  LET roomId == Get(S.playerToRoom, socketId) IN
  IF roomId = Null THEN Ret(S, Fail("Player not in a room"))
  ELSE IF ~Has(S.rooms, roomId) THEN Ret(S, Fail("Room not found"))
  ELSE
    LET room == S.rooms[roomId]
        targetId == IF socketId = room.hostId THEN room.guestId ELSE room.hostId
    IN IF ~InProgress(room) THEN Ret(S, Fail("Game is not in progress"))
       ELSE IF room.gameData.currentTurn # socketId THEN Ret(S, Fail("Not your turn"))
       ELSE IF ~Has(S.players, socketId) \/ targetId = Null \/ ~Has(S.players, targetId)
            THEN Ret(S, Fail("Player data missing"))
       ELSE IF action.type \notin {"ability", "surrender"}
            THEN Ret(S, Fail("Unknown action type"))
       ELSE
         LET d == IF action.type = "ability"
                  THEN processAbilityUse(S, socketId, targetId, action, roomId)
                  ELSE processSurrender(S, socketId, targetId, roomId)
             S1 == d.S
             over == S1.players[socketId].health <= 0 \/ S1.players[targetId].health <= 0
             winner == IF S1.players[socketId].health <= 0
                       THEN S1.players[targetId].id ELSE S1.players[socketId].id
             next == IF room.gameData.currentTurn = room.hostId
                     THEN room.guestId ELSE room.hostId
             room1 == S1.rooms[roomId]
             assigned == [room1 EXCEPT
                            !.status = "completed",
                            !.gameData.winner = winner]
             ended == [assigned EXCEPT
                         !.gameData.battleLog =
                            Append(@, <<"wins the battle!", S1.players[winner].name>>),
                         !.lastActivity = now]
             turned == [room1 EXCEPT
                          !.gameData.currentTurn = next,
                          !.gameData.turnCount = @ + 1,
                          !.gameData.battleLog =
                             Append(@, <<"turn!", S1.players[next].name>>),
                          !.lastActivity = now]
         IN IF over /\ ~Has(S1.players, winner)
            THEN Ret([S1 EXCEPT !.rooms[roomId] = assigned], Threw)
            ELSE IF over
            THEN Ret([S1 EXCEPT !.rooms[roomId] = ended],
                     [d.res EXCEPT !.gameOver = TRUE, !.winner = winner])
            ELSE Ret([S1 EXCEPT !.rooms[roomId] = turned], d.res)

----------------------------------------------------------------------------
(* Reaper *)

(* Mutant: a room is evicted as soon as its age reaches the timeout. *)
RoomExpired_AtTimeout(room, roomTimeout) == now - room.lastActivity >= roomTimeout

(* now - room.lastActivity > roomTimeout *)
RoomExpired(room, roomTimeout) == now - room.lastActivity > roomTimeout

(* now - player.lastActive > playerTimeout && !this.playerToRoom.has(id),  *)
(* the index being the one the room eviction has left.                     *)
PlayerExpired(player, playerId, p2r, playerTimeout) ==
  now - player.lastActive > playerTimeout /\ ~Has(p2r, playerId)

cleanupInactive(S, roomTimeout, playerTimeout) ==
  LET evicted == {r \in RoomIds : Has(S.rooms, r) /\ RoomExpired(S.rooms[r], roomTimeout)}
      rs == [r \in DOMAIN S.rooms \ evicted |-> S.rooms[r]]
      gone == {p \in DOMAIN S.playerToRoom :
                 \E r \in evicted : Contains(S.rooms[r].players, p)}
      p2r == [p \in DOMAIN S.playerToRoom \ gone |-> S.playerToRoom[p]]
      idle == {p \in DOMAIN S.players : PlayerExpired(S.players[p], p, p2r, playerTimeout)}
      ps == [p \in DOMAIN S.players \ idle |-> S.players[p]]
  IN Ret(State(rs, ps, p2r), Ok)

----------------------------------------------------------------------------
(* Socket handlers that do more than forward to one method *)

(* handleUserDisconnection: removePlayerFromRoom when the player's room is *)
(* live, then unregisterPlayer.                                            *)
handleUserDisconnection(S, socketId) ==
  LET roomId == Get(S.playerToRoom, socketId)
      S1 == IF Has(S.playerToRoom, socketId) /\ Has(S.rooms, roomId)
            THEN removePlayerFromRoom(S, socketId, roomId).S
            ELSE S
  IN unregisterPlayer(S1, socketId)

(* handlePlayerReady up to the countdown: the result's allReady says       *)
(* whether a timer is scheduled.                                           *)
handlePlayerReady(S, socketId, isReady) ==
  IF ~Has(S.playerToRoom, socketId) THEN Ret(S, Fail("You are not in a room"))
  ELSE IF ~Has(S.players, socketId) THEN Ret(S, Threw)
  ELSE IF S.players[socketId].character = Null
       THEN Ret(S, Fail("You must select a character first"))
  ELSE setPlayerReady(S, socketId, isReady)

----------------------------------------------------------------------------
(* Actions: one per operation, each taking the whole effect of the call.   *)

Init ==
  /\ rooms = << >>
  /\ players = << >>
  /\ playerToRoom = << >>
  /\ timers = [r \in RoomIds |-> [own |-> 0, orphan |-> 0]]
  /\ now = 0

(* The countdown closures hold a room code, not a room.  timers[r].own     *)
(* counts the pending closures scheduled while the room now under code r   *)
(* was in the registry, timers[r].orphan those scheduled for an earlier    *)
(* room of that code.  A call that deletes the room of a code, or gives    *)
(* the code to a new room (made), orphans the closures of that code.       *)
Pending(r) == timers[r].own + timers[r].orphan

Orphaned(ret, made) ==
  [r \in RoomIds |->
     IF r \in made \/ (Has(rooms, r) /\ ~Has(ret.S.rooms, r))
     THEN [own |-> 0, orphan |-> Pending(r)]
     ELSE timers[r]]

Done(ret) ==
  /\ rooms' = ret.S.rooms
  /\ players' = ret.S.players
  /\ playerToRoom' = ret.S.playerToRoom

(* handleUserConnection: registerPlayer with the default name as          *)
(* playerData.name.                                                        *)
handleUserConnection(S, socketId) ==
  registerPlayer(S, socketId, [name |-> DefaultName(socketId)])

(* handleUserConnection: registerPlayer has no test on the id; on a        *)
(* registered id the record is replaced by a fresh one while the rooms and *)
(* the index keep the player.                                              *)
RegisterPlayer(p) ==
  /\ Done(handleUserConnection(Cur, p))
  /\ UNCHANGED <<timers, now>>

(* registerPlayer called by itself, with the caller's playerData *)
RegisterPlayerAs(p, playerData) ==
  /\ Done(registerPlayer(Cur, p, playerData))
  /\ UNCHANGED <<timers, now>>

(* updatePlayer called by itself: a public method of the manager.  An      *)
(* unknown id returns null and changes nothing.                            *)
UpdatePlayer(p, updates) ==
  /\ Done(Ret(State(rooms, updatePlayer(Cur, p, updates), playerToRoom), Ok))
  /\ UNCHANGED <<timers, now>>

UnregisterPlayer(p) ==
  LET ret == unregisterPlayer(Cur, p)
  IN /\ Done(ret)
     /\ timers' = Orphaned(ret, {})
     /\ UNCHANGED now

HandleUserDisconnection(p) ==
  LET ret == handleUserDisconnection(Cur, p)
  IN /\ Has(players, p)
     /\ Done(ret)
     /\ timers' = Orphaned(ret, {})
     /\ UNCHANGED now

(* createRoom with a generated code: generateRoomCode draws until the code *)
(* is no live room's.                                                      *)
CreateRoom(p, R, isPrivate) ==
  \E r \in R :
    LET ret == createRoom(Cur, p, r, isPrivate)
    IN /\ ~Has(rooms, r)
       /\ Done(ret)
       /\ timers' = Orphaned(ret, IF ret.res.success THEN {r} ELSE {})
       /\ UNCHANGED now

(* createRoom with roomData.roomId supplied *)
CreateRoomWithId(p, r, isPrivate) ==
  LET ret == createRoom(Cur, p, r, isPrivate)
  IN /\ Done(ret)
     /\ timers' = Orphaned(ret, IF ret.res.success THEN {r} ELSE {})
     /\ UNCHANGED now

AddPlayerToRoom(p, r) ==
  LET ret == addPlayerToRoom(Cur, p, r)
  IN /\ Done(ret)
     /\ timers' = Orphaned(ret, {})
     /\ UNCHANGED now

RemovePlayerFromRoom(p, r) ==
  LET ret == removePlayerFromRoom(Cur, p, r)
  IN /\ Done(ret)
     /\ timers' = Orphaned(ret, {})
     /\ UNCHANGED now

LeaveAllRooms(p) ==
  LET ret == leaveAllRooms(Cur, p)
  IN /\ Done(ret)
     /\ timers' = Orphaned(ret, {})
     /\ UNCHANGED now

SetPlayerCharacter(p, c) ==
  /\ Done(setPlayerCharacter(Cur, p, c))
  /\ UNCHANGED <<timers, now>>

SetPlayerReady(p, isReady) ==
  /\ Done(setPlayerReady(Cur, p, isReady))
  /\ UNCHANGED <<timers, now>>

(* handlePlayerReady: setTimeout(startGame, 3000) when allReady *)
HandlePlayerReady(p, isReady) ==
  LET ret == handlePlayerReady(Cur, p, isReady)
      r == Get(playerToRoom, p)
  IN /\ ret.res.allReady => Pending(r) < MaxTimers
     /\ Done(ret)
     /\ timers' = IF ret.res.allReady THEN [timers EXCEPT ![r].own = @ + 1] ELSE timers
     /\ UNCHANGED now

StartGame(r) ==
  /\ Done(startGame(Cur, r))
  /\ UNCHANGED <<timers, now>>

(* A countdown timer of handlePlayerReady fires: startGame(roomId) on      *)
(* whatever room the code names by then.                                   *)
TimerFire(r) ==
  /\ \/ timers[r].own > 0 /\ timers' = [timers EXCEPT ![r].own = @ - 1]
     \/ timers[r].orphan > 0 /\ timers' = [timers EXCEPT ![r].orphan = @ - 1]
  /\ Done(startGame(Cur, r))
  /\ UNCHANGED now

ProcessGameAction(p, action) ==
  LET ret == processGameAction(Cur, p, action)
      r == Get(playerToRoom, p)
  IN /\ Has(ret.S.rooms, r) => ret.S.rooms[r].gameData.turnCount <= MaxTurns
     /\ Done(ret)
     /\ UNCHANGED <<timers, now>>

CleanupInactive(roomTimeout, playerTimeout) ==
  LET ret == cleanupInactive(Cur, roomTimeout, playerTimeout)
  IN /\ Done(ret)
     /\ timers' = Orphaned(ret, {})
     /\ UNCHANGED now

(* Date.now() advances. *)
Tick ==
  /\ now < MaxTime
  /\ now' = now + 1
  /\ UNCHANGED <<rooms, players, playerToRoom, timers>>

----------------------------------------------------------------------------
(* Spec: the match.  Every operation of the manager but the reaper, two    *)
(* connections, one room code, the clock standing still.                   *)

Next ==
  \/ \E p \in MatchPlayers : RegisterPlayer(p)
  \/ \E p \in MatchPlayers, u \in FlagUpdates : UpdatePlayer(p, u)
  \/ \E p \in MatchPlayers : UnregisterPlayer(p)
  \/ \E p \in MatchPlayers : HandleUserDisconnection(p)
  \/ \E p \in MatchPlayers, priv \in BOOLEAN : CreateRoom(p, MatchRooms, priv)
  \/ \E p \in MatchPlayers, r \in MatchRooms, priv \in BOOLEAN : CreateRoomWithId(p, r, priv)
  \/ \E p \in MatchPlayers, r \in MatchRooms : AddPlayerToRoom(p, r)
  \/ \E p \in MatchPlayers, r \in MatchRooms : RemovePlayerFromRoom(p, r)
  \/ \E p \in MatchPlayers : LeaveAllRooms(p)
  \/ \E p \in MatchPlayers, c \in CharIds : SetPlayerCharacter(p, c)
  \/ \E p \in MatchPlayers, b \in BOOLEAN : SetPlayerReady(p, b)
  \/ \E r \in MatchRooms : StartGame(r)
  \/ \E p \in MatchPlayers, a \in Actions : ProcessGameAction(p, a)

Spec == Init /\ [][Next]_vars

(* SpecLobby: membership, readiness and start with two connections and two *)
(* room codes; no character is selected and no action is played.           *)

NextLobby ==
  \/ \E p \in LobbyPlayers : RegisterPlayer(p)
  \/ \E p \in LobbyPlayers, u \in FlagUpdates : UpdatePlayer(p, u)
  \/ \E p \in LobbyPlayers : UnregisterPlayer(p)
  \/ \E p \in LobbyPlayers : HandleUserDisconnection(p)
  \/ \E p \in LobbyPlayers : CreateRoom(p, RoomIds, FALSE)
  \/ \E p \in LobbyPlayers, r \in RoomIds : CreateRoomWithId(p, r, FALSE)
  \/ \E p \in LobbyPlayers, r \in RoomIds : AddPlayerToRoom(p, r)
  \/ \E p \in LobbyPlayers, r \in RoomIds : RemovePlayerFromRoom(p, r)
  \/ \E p \in LobbyPlayers : LeaveAllRooms(p)
  \/ \E p \in LobbyPlayers, b \in BOOLEAN : SetPlayerReady(p, b)
  \/ \E r \in RoomIds : StartGame(r)

SpecLobby == Init /\ [][NextLobby]_vars

(* SpecReaper: membership and the sweep with two connections and two room  *)
(* codes while the clock advances.                                         *)

NextReaper ==
  \/ \E p \in ReaperPlayers : RegisterPlayer(p)
  \/ \E p \in ReaperPlayers, u \in KeepAlive : UpdatePlayer(p, u)
  \/ \E p \in ReaperPlayers : UnregisterPlayer(p)
  \/ \E p \in ReaperPlayers : CreateRoom(p, RoomIds, FALSE)
  \/ \E p \in ReaperPlayers, r \in RoomIds : AddPlayerToRoom(p, r)
  \/ \E p \in ReaperPlayers, r \in RoomIds : RemovePlayerFromRoom(p, r)
  \/ \E p \in ReaperPlayers : LeaveAllRooms(p)
  \/ \E rt \in Timeouts, pt \in Timeouts : CleanupInactive(rt, pt)
  \/ Tick

SpecReaper == Init /\ [][NextReaper]_vars

(* SpecCountdown: the lobby through the socket handler of the ready vote   *)
(* and its countdown timers, two connections and one room code; the events *)
(* that can be processed between the scheduling of a countdown and its     *)
(* firing.                                                                 *)

NextCountdown ==
  \/ \E p \in MatchPlayers : RegisterPlayer(p)
  \/ \E p \in MatchPlayers, u \in FlagUpdates : UpdatePlayer(p, u)
  \/ \E p \in MatchPlayers : UnregisterPlayer(p)
  \/ \E p \in MatchPlayers : HandleUserDisconnection(p)
  \/ \E p \in MatchPlayers : CreateRoom(p, MatchRooms, FALSE)
  \/ \E p \in MatchPlayers, r \in MatchRooms : CreateRoomWithId(p, r, FALSE)
  \/ \E p \in MatchPlayers, r \in MatchRooms : AddPlayerToRoom(p, r)
  \/ \E p \in MatchPlayers, r \in MatchRooms : RemovePlayerFromRoom(p, r)
  \/ \E p \in MatchPlayers : LeaveAllRooms(p)
  \/ \E p \in MatchPlayers, c \in CharIds : SetPlayerCharacter(p, c)
  \/ \E p \in MatchPlayers, b \in BOOLEAN : SetPlayerReady(p, b)
  \/ \E p \in MatchPlayers, b \in BOOLEAN : HandlePlayerReady(p, b)
  \/ \E r \in MatchRooms : TimerFire(r)

SpecCountdown == Init /\ [][NextCountdown]_vars

(* SpecRecords: the player records.  Registration, updatePlayer with every *)
(* kind of partial record, the lobby and the match of two connections in   *)
(* one room code; nobody leaves.                                           *)

NextRecords ==
  \/ \E p \in MatchPlayers : RegisterPlayer(p)
  \/ \E p \in MatchPlayers, u \in Updates : UpdatePlayer(p, u)
  \/ \E p \in MatchPlayers : CreateRoom(p, MatchRooms, FALSE)
  \/ \E p \in MatchPlayers, r \in MatchRooms : AddPlayerToRoom(p, r)
  \/ \E p \in MatchPlayers, c \in CharIds : SetPlayerCharacter(p, c)
  \/ \E p \in MatchPlayers, b \in BOOLEAN : SetPlayerReady(p, b)
  \/ \E r \in MatchRooms : StartGame(r)
  \/ \E p \in MatchPlayers, a \in Actions : ProcessGameAction(p, a)

SpecRecords == Init /\ [][NextRecords]_vars

(* SpecIdentity: the id, the name and the stats of the player records as   *)
(* a caller of the manager can set them.  The lobby and the match of two   *)
(* connections whose default names are the same, in one room code, with    *)
(* registerPlayer given a name and updatePlayer given an id, a name or a   *)
(* negative health; the matches end with their first action and nobody    *)
(* leaves.                                                                 *)

NextIdentity ==
  \/ \E p \in IdentityPlayers : RegisterPlayer(p)
  \/ \E p \in IdentityPlayers, d \in PlayerData : RegisterPlayerAs(p, d)
  \/ \E p \in IdentityPlayers, u \in Identities \cup NegativeStats : UpdatePlayer(p, u)
  \/ \E p \in IdentityPlayers : CreateRoom(p, MatchRooms, FALSE)
  \/ \E p \in IdentityPlayers, r \in MatchRooms : AddPlayerToRoom(p, r)
  \/ \E p \in IdentityPlayers, c \in CharIds : SetPlayerCharacter(p, c)
  \/ \E p \in IdentityPlayers, b \in BOOLEAN : SetPlayerReady(p, b)
  \/ \E r \in MatchRooms : StartGame(r)
  \/ \E p \in IdentityPlayers, a \in Finishers : ProcessGameAction(p, a)

SpecIdentity == Init /\ [][NextIdentity]_vars

----------------------------------------------------------------------------
(* Vocabulary of the properties *)

Live(r) == Has(rooms, r)
Roster(r) == rooms[r].players
Occupants(r) == {Roster(r)[i] : i \in 1..Len(Roster(r))}
Distinct(seq) == \A i, j \in 1..Len(seq) : i # j => seq[i] # seq[j]

----------------------------------------------------------------------------
(* C1: the reverse index and the rosters agree: the index maps player p to *)
(* room r if and only if r is a live room and p is in r's roster.  The     *)
(* code breaks it: a host joining its own room leaves an index entry for a *)
(* deleted room.                                                           *)
C1_IndexAgreesWithRosters ==
  \A p \in Players, r \in RoomIds :
     (Get(playerToRoom, p) = r) <=> (Live(r) /\ Contains(Roster(r), p))

(* C2: every live room has at most 2 distinct occupants, and guestId is    *)
(* set exactly when the roster has 2 entries, to the occupant that is not  *)
(* the host.  The code breaks it once removePlayerFromRoom has dropped the *)
(* index entry of a player it did not remove from any roster.              *)
C2_RosterAndGuest ==
  \A r \in RoomIds :
     Live(r) =>
       /\ Len(Roster(r)) <= 2
       /\ Distinct(Roster(r))
       /\ (rooms[r].guestId # Null) <=> (Len(Roster(r)) = 2)
       /\ Len(Roster(r)) = 2 =>
            /\ rooms[r].guestId # rooms[r].hostId
            /\ Contains(Roster(r), rooms[r].guestId)

(* C3: every room in the registry has a non-empty roster whose first entry *)
(* is hostId; removing the last occupant deletes the room and reports      *)
(* roomClosed; removing the host while an occupant remains makes the first *)
(* remaining occupant the host.                                            *)
C3_HostIsFirstOccupant ==
  \A r \in RoomIds :
     Live(r) =>
       /\ Len(Roster(r)) > 0
       /\ rooms[r].hostId = Roster(r)[1]
       /\ \A p \in Occupants(r) :
            LET ret == removePlayerFromRoom(Cur, p, r)
                rest == Remove(Roster(r), p)
            IN /\ rest = << >> => ~Has(ret.S.rooms, r) /\ ret.res.roomClosed
               /\ rest # << >> =>
                    /\ Has(ret.S.rooms, r)
                    /\ ~ret.res.roomClosed
                    /\ ret.S.rooms[r].players = rest
                    /\ ret.S.rooms[r].hostId = rest[1]

(* A match was started by p's host, the host left and the occupant that    *)
(* remained is now the host of a room that is still in the registry.       *)
C3_Witness ==
  \E r \in RoomIds :
     /\ Live(r)
     /\ rooms[r].status = "completed"
     /\ Len(Roster(r)) = 1
     /\ rooms[r].gameData.currentTurn \notin {Null, Roster(r)[1]}
     /\ rooms[r].hostId = Roster(r)[1]
     /\ removePlayerFromRoom(Cur, Roster(r)[1], r).res.roomClosed

(* The room a caller acts on: the one the reverse index names. *)
RoomOf(p) == Get(playerToRoom, p)
Playing(p) == Live(RoomOf(p)) /\ rooms[RoomOf(p)].status = "in-progress"
Other(r, p) == IF p = rooms[r].hostId THEN rooms[r].guestId ELSE rooms[r].hostId

(* The players of the successful actions of a match, in order: an ability  *)
(* that was applied or a surrender leaves its line in the battle log.      *)
Movers(log) == SelectSeq(log, LAMBDA e : e[1] \in {"used", "surrendered!"})

(* C4, first part: a successful action that does not end the match hands   *)
(* the turn to the other occupant and adds exactly 1 to turnCount.         *)
C4_SuccessPassesTurn ==
  \A p \in Players, a \in Actions :
     Playing(p) =>
       LET r == RoomOf(p)
           ret == processGameAction(Cur, p, a)
       IN (ret.res.success /\ ~ret.res.gameOver) =>
            /\ ret.S.rooms[r].gameData.currentTurn = Other(r, p)
            /\ ret.S.rooms[r].gameData.currentTurn # p
            /\ ret.S.rooms[r].gameData.currentTurn \in Occupants(r)
            /\ ret.S.rooms[r].gameData.turnCount = rooms[r].gameData.turnCount + 1

(* C4, second part: no player completes two successful actions in a row.   *)
C4_NoTwoInARow ==
  \A r \in RoomIds :
     Live(r) =>
       LET m == Movers(rooms[r].gameData.battleLog)
       IN \A i \in 1..(Len(m) - 1) : m[i][2] # m[i + 1][2]

(* C4, third part: of two submissions for one turn at most one succeeds;   *)
(* the one that does not hold the turn fails with not-your-turn, and so    *)
(* does a second submission by the player that has just acted.             *)
C4_OneSubmissionPerTurn ==
  \A p \in Players, a \in Actions :
     Playing(p) =>
       LET r == RoomOf(p)
           ret == processGameAction(Cur, p, a)
       IN /\ rooms[r].gameData.currentTurn # p =>
               ret.res.error = "Not your turn" /\ ret.S = Cur
          /\ ret.res.success =>
               \A b \in Actions :
                  processGameAction(ret.S, p, b).res.error
                     \in {"Not your turn", "Game is not in progress"}

(* C4: from startGame until completed, turn ownership strictly alternates. *)
(* The code breaks the second part: an ability rejected with               *)
(* ability-not-found or not-enough-mana still passes the turn, so the      *)
(* player that acted last acts again.                                      *)
C4_TurnsAlternate ==
  C4_SuccessPassesTurn /\ C4_NoTwoInARow /\ C4_OneSubmissionPerTurn

(* The step put a new room under code r (createRoom). *)
NewlyCreated(r) ==
  \E p \in Players, priv \in BOOLEAN :
     /\ createRoom(Cur, p, r, priv).res.success
     /\ rooms' = createRoom(Cur, p, r, priv).S.rooms

C5_Rejected ==
  \A p \in Players, a \in Actions :
     (Live(RoomOf(p)) /\ rooms[RoomOf(p)].status = "completed") =>
        LET ret == processGameAction(Cur, p, a)
        IN /\ ~ret.res.success
           /\ ret.res.error = "Game is not in progress"
           /\ ret.S = Cur

C5_StaysCompleted ==
  \A r \in RoomIds :
     (Live(r) /\ rooms[r].status = "completed") =>
        \/ ~Has(rooms', r)
        \/ rooms'[r].status = "completed"
        \/ NewlyCreated(r)

(* C5: once a room is completed it stays completed until it is deleted or  *)
(* its code is given to a new room, and every processAction of a player    *)
(* whose room it is fails with not-in-progress and changes nothing.        *)
C5_CompletedRejectsActions == []C5_Rejected /\ [][C5_StaysCompleted]_vars

(* A match that processAction ended: the player that holds currentTurn in  *)
(* the completed room is still turned away.                                *)
C5_Witness ==
  \E p \in Players :
     /\ Live(RoomOf(p))
     /\ rooms[RoomOf(p)].status = "completed"
     /\ p \in Occupants(RoomOf(p))
     /\ rooms[RoomOf(p)].gameData.currentTurn = p
     /\ rooms[RoomOf(p)].gameData.winner # Null
     /\ processGameAction(Cur, p, [type |-> "surrender", abilityId |-> Null]).res.error
           = "Game is not in progress"

(* C6: when a processAction ends a match between two occupants that both   *)
(* selected a character, the room is completed and the winner is an        *)
(* occupant whose health is above 0.  The code breaks it: health is set    *)
(* only by setPlayerCharacter, so the loser of one match enters the next   *)
(* with health 0 and wins it when the opponent surrenders.                 *)
C6_WinnerIsAlive ==
  \A p \in Players, a \in Actions :
     (/\ Playing(p)
      /\ \A o \in Occupants(RoomOf(p)) :
            Has(players, o) /\ players[o].character # Null
                            /\ Characters[players[o].character].health > 0) =>
        LET r == RoomOf(p)
            ret == processGameAction(Cur, p, a)
        IN (ret.res.success /\ ret.res.gameOver) =>
             /\ ret.S.rooms[r].status = "completed"
             /\ ret.S.rooms[r].gameData.winner = ret.res.winner
             /\ ret.res.winner \in Occupants(r)
             /\ ret.S.players[ret.res.winner].health > 0

(* The states a departure of p from room r leads to, by each way of        *)
(* leaving.                                                                *)
Departures(p, r) ==
  {removePlayerFromRoom(Cur, p, r).S, leaveAllRooms(Cur, p).S,
   unregisterPlayer(Cur, p).S, handleUserDisconnection(Cur, p).S}
  \cup {createRoom(Cur, p, r2, priv).S : r2 \in RoomIds \ {r}, priv \in BOOLEAN}
  \cup {addPlayerToRoom(Cur, p, r2).S : r2 \in RoomIds \ {r}}

(* C7: when an occupant leaves an in-progress room, the room is completed  *)
(* in that step and the winner is the one occupant that remains.  The code *)
(* breaks it for a room whose roster holds one player twice (C2): the room *)
(* is deleted instead.                                                     *)
C7_DepartureForfeits ==
  \A r \in RoomIds :
     (Live(r) /\ rooms[r].status = "in-progress") =>
        \A p \in Occupants(r) : \A S \in Departures(p, r) :
           (~Has(S.rooms, r) \/ ~Contains(S.rooms[r].players, p)) =>
              /\ Has(S.rooms, r)
              /\ S.rooms[r].status = "completed"
              /\ Len(S.rooms[r].players) = 1
              /\ S.rooms[r].gameData.winner = S.rooms[r].players[1]

(* C8: an occupant marked ready that reselects a character while the room  *)
(* is ready sends the room back to waiting.  The code resets the flag and  *)
(* leaves the status at ready.                                             *)
C8_ReselectRegresses ==
  \A p \in Players, c \in CharIds :
     (/\ Live(RoomOf(p))
      /\ p \in Occupants(RoomOf(p))
      /\ rooms[RoomOf(p)].status = "ready"
      /\ players[p].isReady) =>
        LET ret == setPlayerCharacter(Cur, p, c)
        IN /\ ~ret.S.players[p].isReady
           /\ ret.S.rooms[RoomOf(p)].status = "waiting"

(* Which call a step was *)
BySetReady == \E p \in Players, b \in BOOLEAN : Done(setPlayerReady(Cur, p, b))
ByStartGame(r) == Done(startGame(Cur, r))
BySetCharacter == \E p \in Players, c \in CharIds : Done(setPlayerCharacter(Cur, p, c))
ByAction == \E p \in Players, a \in Actions : Done(processGameAction(Cur, p, a))
ByDeparture ==
  \E p \in Players :
     \/ \E r \in RoomIds : Done(removePlayerFromRoom(Cur, p, r))
     \/ Done(leaveAllRooms(Cur, p))
     \/ Done(unregisterPlayer(Cur, p))
     \/ Done(handleUserDisconnection(Cur, p))
     \/ \E r \in RoomIds, priv \in BOOLEAN : Done(createRoom(Cur, p, r, priv))
     \/ \E r \in RoomIds : Done(addPlayerToRoom(Cur, p, r))

C9_Step(r) ==
  LET from == rooms[r].status
      to == rooms'[r].status
  IN \/ from = "waiting" /\ to = "ready" /\ BySetReady
     \/ from = "ready" /\ to = "in-progress" /\ ByStartGame(r)
     \/ from = "in-progress" /\ to = "completed" /\ (ByAction \/ ByDeparture)
     \/ from = "ready" /\ to = "waiting" /\ BySetCharacter

(* C9: the status of a room changes only waiting -> ready by setReady,     *)
(* ready -> in-progress by startGame, in-progress -> completed by an       *)
(* action or a departure, ready -> waiting by a character selection;       *)
(* nothing leaves completed.  A createRoom that puts a new room under the  *)
(* code is the start of another room.                                      *)
C9_StatusTransitions ==
  [][\A r \in RoomIds :
       (Live(r) /\ Has(rooms', r) /\ rooms'[r].status # rooms[r].status
          /\ ~NewlyCreated(r)) => C9_Step(r)]_vars

(* A room that went through the four statuses and was ended by win         *)
(* detection after the turn had passed at least once.                      *)
C9_Witness ==
  \E r \in RoomIds :
     /\ Live(r)
     /\ rooms[r].status = "completed"
     /\ rooms[r].gameData.turnCount >= 2
     /\ LET log == rooms[r].gameData.battleLog
        IN log # << >> /\ log[Len(log)][1] = "wins the battle!"

(* The occupants of a room are the players in its roster, each counted    *)
(* once; the caller's room is the room whose roster has the caller.        *)
C10_Returned ==
  \A p \in Players, b \in BOOLEAN, r \in RoomIds :
     (Has(players, p) /\ Live(r) /\ p \in Occupants(r)) =>
        LET ret == setPlayerReady(Cur, p, b)
            both == /\ Cardinality(Occupants(r)) = 2
                    /\ \A o \in Occupants(r) :
                          Has(ret.S.players, o) /\ ret.S.players[o].isReady
        IN /\ ret.res.allReady <=> both
           /\ ret.S.players[p].isReady = b
           /\ rooms[r].status = "waiting" =>
                /\ ret.res.allReady => ret.S.rooms[r].status = "ready"
                /\ ~ret.res.allReady => ret.S.rooms[r].status = "waiting"

C10_LeavesWaiting ==
  \A r \in RoomIds :
     (Live(r) /\ rooms[r].status = "waiting" /\ Has(rooms', r)
        /\ rooms'[r].status # "waiting") =>
        /\ rooms'[r].status = "ready"
        /\ Cardinality({rooms'[r].players[i] : i \in 1..Len(rooms'[r].players)}) = 2
        /\ \A i \in 1..Len(rooms'[r].players) :
              /\ Has(players', rooms'[r].players[i])
              /\ players'[rooms'[r].players[i]].isReady

(* C10: setPlayerReady returns allReady exactly when, after the update,    *)
(* the caller's room has 2 occupants and both are ready; a waiting room    *)
(* becomes ready in that call exactly when allReady is true, and no room   *)
(* leaves waiting with fewer than 2 occupants or an unready occupant.  The *)
(* code counts roster entries: a roster that holds one player twice is     *)
(* all ready after that player's vote.                                     *)
C10_AllReady == []C10_Returned /\ [][C10_LeavesWaiting]_vars

----------------------------------------------------------------------------
(* C11: startGame succeeds exactly when the room exists, its status is     *)
(* ready and its roster has 2 entries; on success the room is in-progress  *)
(* with turnCount 1, currentTurn the host and no winner; in every other    *)
(* case it returns room-not-found, not-ready or wrong-occupancy and        *)
(* changes nothing.  The code breaks it when the host of a ready room has  *)
(* no player record: the call throws after it has set the status.          *)
C11_StartGame ==
  \A r \in RoomIds :
     LET ret == startGame(Cur, r)
         startable == Live(r) /\ rooms[r].status = "ready" /\ Len(Roster(r)) = 2
     IN /\ ret.res.success <=> startable
        /\ ret.res.success =>
             /\ ret.S.rooms[r].status = "in-progress"
             /\ ret.S.rooms[r].gameData.turnCount = 1
             /\ ret.S.rooms[r].gameData.currentTurn = rooms[r].hostId
             /\ ret.S.rooms[r].gameData.winner = Null
        /\ ~ret.res.success =>
             /\ ret.S = Cur
             /\ ret.res.error = (IF ~Live(r) THEN "Room not found"
                                 ELSE IF rooms[r].status # "ready"
                                      THEN "Not all players are ready"
                                 ELSE "Need exactly 2 players to start")

----------------------------------------------------------------------------
(* The values a successful ability writes: the acting player's mana is     *)
(* max(0, mana - cost) and the opponent's health max(0, health - damage),  *)
(* neither below 0, whatever the two were before.                          *)
C12_AbilityResult ==
  \A p \in Players, a \in Actions :
     (Playing(p) /\ a.type = "ability") =>
        LET r == RoomOf(p)
            o == Other(r, p)
            ret == processGameAction(Cur, p, a)
            ability == Find(Characters[players[p].character].abilities, a.abilityId)
            left == players[p].mana - ability.manaCost
            hp == players[o].health - ability.damage
        IN ret.res.success =>
             /\ ret.S.players[p].mana = (IF left < 0 THEN 0 ELSE left)
             /\ ret.S.players[o].health = (IF hp < 0 THEN 0 ELSE hp)
             /\ ret.S.players[p].mana >= 0
             /\ ret.S.players[o].health >= 0

(* C12: a successful ability sets the acting player's mana to             *)
(* max(0, mana - cost) and the opponent's health to max(0, health -        *)
(* damage), and in every reachable state every player's health and mana    *)
(* are at least 0, the stats handed in (a character's, a field given to    *)
(* updatePlayer) being non-negative.                                       *)
C12_Clamped ==
  /\ \A p \in Players : Has(players, p) => players[p].health >= 0 /\ players[p].mana >= 0
  /\ C12_AbilityResult

(* An ability whose damage exceeds the health the opponent had left ended  *)
(* a match: the opponent's health is 0, not below.                         *)
C12_Witness ==
  \E r \in RoomIds :
     /\ Live(r)
     /\ rooms[r].status = "completed"
     /\ LET log == rooms[r].gameData.battleLog
        IN /\ Len(log) >= 3
           /\ log[Len(log)][1] = "wins the battle!"
           /\ log[Len(log) - 1][1] = "took"
           /\ log[Len(log) - 1][3] > Characters["c1"].health
           /\ \E o \in Occupants(r) :
                 /\ Has(players, o)
                 /\ players[o].name = log[Len(log) - 1][2]
                 /\ players[o].character # Null
                 /\ players[o].health = 0

----------------------------------------------------------------------------
(* C13: after a successful addPlayerToRoom(p, r) room r is in the          *)
(* registry, p is in its roster, the index maps p to r, p is in no other   *)
(* roster and guestId is p when the roster has 2 entries, whatever room p  *)
(* occupied before.  The code breaks it when p is the only occupant of r:  *)
(* leaving r deletes it and the join goes to the deleted room.             *)
C13_JoinedRoom ==
  \A p \in Players, r \in RoomIds :
     LET ret == addPlayerToRoom(Cur, p, r)
     IN ret.res.success =>
          /\ Has(ret.S.rooms, r)
          /\ Contains(ret.S.rooms[r].players, p)
          /\ Get(ret.S.playerToRoom, p) = r
          /\ \A r2 \in RoomIds \ {r} :
                Has(ret.S.rooms, r2) => ~Contains(ret.S.rooms[r2].players, p)
          /\ Len(ret.S.rooms[r].players) = 2 => ret.S.rooms[r].guestId = p

----------------------------------------------------------------------------
(* C14: the public listing is exactly the rooms of the registry that are   *)
(* non-private, waiting and hold fewer than 2 occupants: a public room     *)
(* just created is listed, a room is not listed once a second player has   *)
(* joined, and no listed room is ready, in-progress or completed.          *)
C14_PublicListing ==
  /\ getPublicRooms(Cur) =
        {r \in RoomIds : Live(r) /\ ~rooms[r].isPrivate
                         /\ rooms[r].status = "waiting" /\ Len(Roster(r)) < 2}
  /\ \A p \in Players, r \in RoomIds :
        LET made == createRoom(Cur, p, r, FALSE)
            shut == createRoom(Cur, p, r, TRUE)
            join == addPlayerToRoom(Cur, p, r)
        IN /\ made.res.success => r \in getPublicRooms(made.S)
           /\ shut.res.success => r \notin getPublicRooms(shut.S)
           /\ (join.res.success /\ r \in getPublicRooms(Cur)
                 /\ ~Contains(Roster(r), p)) =>
                 r \notin getPublicRooms(join.S)

(* A public room that is still waiting and is full: it is not listed.      *)
C14_Witness ==
  \E r \in RoomIds :
     /\ Live(r)
     /\ ~rooms[r].isPrivate
     /\ rooms[r].status = "waiting"
     /\ Len(Roster(r)) = 2
     /\ Distinct(Roster(r))
     /\ r \notin getPublicRooms(Cur)

----------------------------------------------------------------------------
(* C15: leaveAllRooms for a player that is in no room's roster returns     *)
(* success and changes no room, player or index, the first time and when   *)
(* repeated.  The code breaks it when the index still names a room for     *)
(* that player: a deleted room makes the call fail with room-not-found, a  *)
(* live one is touched and the index entry is deleted.                     *)
C15_LeaveAllIsNoOp ==
  \A p \in Players :
     (\A r \in RoomIds : Live(r) => ~Contains(Roster(r), p)) =>
        LET ret == leaveAllRooms(Cur, p)
            again == leaveAllRooms(ret.S, p)
        IN /\ ret.res.success
           /\ ret.S = Cur
           /\ again.res.success
           /\ again.S = Cur

----------------------------------------------------------------------------
(* C16: after a connected player disconnects (handleUserDisconnection, or  *)
(* unregisterPlayer alone) no room of the registry has it in its roster,   *)
(* as hostId or as guestId, the index has no entry for it and its record   *)
(* is gone.  The code breaks it for a player whose index entry was dropped *)
(* while it stayed in a roster (C26): only the index says which room to    *)
(* leave.                                                                  *)
C16_DisconnectLeavesNoTrace ==
  \A p \in Players :
     Has(players, p) =>
        \A S \in {handleUserDisconnection(Cur, p).S, unregisterPlayer(Cur, p).S} :
           /\ ~Has(S.players, p)
           /\ ~Has(S.playerToRoom, p)
           /\ \A r \in RoomIds :
                 Has(S.rooms, r) =>
                    /\ ~Contains(S.rooms[r].players, p)
                    /\ S.rooms[r].hostId # p
                    /\ S.rooms[r].guestId # p

----------------------------------------------------------------------------
(* C17: a sweep removes exactly the rooms whose lastActivity is older than *)
(* now minus the room timeout, deletes the index entry of every occupant   *)
(* of a removed room, and leaves every room it keeps as it was (status,    *)
(* winner, host and roster).                                               *)
C17_SweepRooms ==
  \A rt \in Timeouts, pt \in Timeouts :
     LET ret == cleanupInactive(Cur, rt, pt)
         old == {r \in RoomIds : Live(r) /\ rooms[r].lastActivity < now - rt}
     IN /\ DOMAIN ret.S.rooms = DOMAIN rooms \ old
        /\ \A r \in DOMAIN ret.S.rooms : ret.S.rooms[r] = rooms[r]
        /\ \A r \in old : \A p \in Occupants(r) : ~Has(ret.S.playerToRoom, p)

(* Two rooms, one idle for longer than the timeout and one not: the sweep  *)
(* removes the first with its occupant's index entry and keeps the second. *)
C17_Witness ==
  \E rt \in Timeouts, r1 \in RoomIds, r2 \in RoomIds, p \in Players :
     LET ret == cleanupInactive(Cur, rt, rt)
     IN /\ Live(r1) /\ Live(r2)
        /\ now - rooms[r1].lastActivity = rt + 1
        /\ now - rooms[r2].lastActivity = rt
        /\ Contains(Roster(r1), p)
        /\ Get(playerToRoom, p) = r1
        /\ ~Has(ret.S.rooms, r1)
        /\ Has(ret.S.rooms, r2)
        /\ ~Has(ret.S.playerToRoom, p)

----------------------------------------------------------------------------
(* C18: a sweep removes a player record only if the player's lastActive is *)
(* older than now minus the player timeout and the player is in no roster  *)
(* after the room eviction of that sweep; a player in the roster of a room *)
(* that survives is never removed.  The code breaks it for a roster member *)
(* whose index entry is gone (C26): the sweep looks at the index only.     *)
C18_SweepPlayers ==
  \A rt \in Timeouts, pt \in Timeouts :
     LET ret == cleanupInactive(Cur, rt, pt)
     IN \A p \in DOMAIN players :
          LET housed == \E r \in DOMAIN ret.S.rooms : Contains(ret.S.rooms[r].players, p)
          IN /\ ~Has(ret.S.players, p) =>
                  /\ players[p].lastActive < now - pt
                  /\ ~housed
             /\ housed => Has(ret.S.players, p)

----------------------------------------------------------------------------
(* C19: a processGameAction rejected with ability-not-found or             *)
(* not-enough-mana changes nothing: currentTurn, turnCount, status, winner *)
(* and battle log of the room and health and mana of both occupants are    *)
(* as before, and the rejected player still holds the turn.  The code      *)
(* runs the game-over check and the turn change on the rejected ability.   *)
C19_RejectedAbilityChangesNothing ==
  \A p \in Players, a \in Actions :
     Playing(p) =>
        LET r == RoomOf(p)
            ret == processGameAction(Cur, p, a)
        IN ret.res.error \in {"Ability not found", "Not enough mana"} =>
             /\ ~ret.res.success
             /\ ret.S.rooms[r].gameData = rooms[r].gameData
             /\ ret.S.rooms[r].status = rooms[r].status
             /\ ret.S.rooms[r].gameData.currentTurn = p
             /\ \A o \in Occupants(r) :
                   Has(players, o) =>
                      /\ ret.S.players[o].health = players[o].health
                      /\ ret.S.players[o].mana = players[o].mana

----------------------------------------------------------------------------
(* C20: a countdown that fires after its room was deleted, lost an         *)
(* occupant or left status ready changes no state and starts no game, and  *)
(* of several countdowns scheduled for one room at most one starts the     *)
(* match.  The code breaks the first part: the closure holds the room code *)
(* only, so a countdown of a deleted room starts the match of the room     *)
(* that has been given its code since.                                     *)
C20_FireRevalidates ==
  \A r \in RoomIds :
     LET fire == startGame(Cur, r)
         again == startGame(fire.S, r)
     IN /\ timers[r].orphan > 0 => ~fire.res.success /\ fire.S = Cur
        /\ (timers[r].own > 0
              /\ (~Live(r) \/ Len(Roster(r)) # 2 \/ rooms[r].status # "ready")) =>
              ~fire.res.success /\ fire.S = Cur
        /\ (Pending(r) > 1 /\ fire.res.success) =>
              ~again.res.success /\ again.S = fire.S

----------------------------------------------------------------------------
(* C21: whenever startGame succeeds, by a direct call or by a countdown    *)
(* that fires, every occupant of the room has its readiness flag true.     *)
(* The code breaks it: a vote withdrawn or a character reselected after    *)
(* the room became ready clears the flag and leaves the status at ready,   *)
(* and startGame looks at the status only.                                 *)
C21_StartsOnlyWhenAllReady ==
  \A r \in RoomIds :
     startGame(Cur, r).res.success =>
        \A p \in Occupants(r) : Has(players, p) /\ players[p].isReady

----------------------------------------------------------------------------
(* C22: an addPlayerToRoom that fails with room-not-found,                 *)
(* player-not-found, room-full or room-not-waiting changes no state: the   *)
(* player stays in the roster of the room it occupied, that room keeps its *)
(* host, guest and status, and the index is unchanged.                     *)
C22_FailedJoinChangesNothing ==
  \A p \in Players, r \in RoomIds :
     LET ret == addPlayerToRoom(Cur, p, r)
     IN ~ret.res.success =>
          /\ ret.S = Cur
          /\ ret.res.error =
                (IF ~Live(r) THEN "Room not found"
                 ELSE IF ~Has(players, p) THEN "Player not found"
                 ELSE IF Len(Roster(r)) >= 2 THEN "Room is full"
                 ELSE "Room is not accepting new players")
          /\ ~Live(r) \/ ~Has(players, p) \/ Len(Roster(r)) >= 2
                \/ rooms[r].status # "waiting"

(* A player that hosts one room is turned away by another room that is no  *)
(* longer waiting.                                                         *)
C22_Witness ==
  \E p \in Players, r \in RoomIds, r2 \in RoomIds :
     /\ r # r2
     /\ Live(r) /\ Live(r2)
     /\ Get(playerToRoom, p) = r
     /\ Contains(Roster(r), p)
     /\ rooms[r].hostId = p
     /\ ~Contains(Roster(r2), p)
     /\ Len(Roster(r2)) = 1
     /\ rooms[r2].status = "completed"
     /\ addPlayerToRoom(Cur, p, r2).res.error = "Room is not accepting new players"

----------------------------------------------------------------------------
(* C23: a room that is in-progress has exactly 2 occupants, both with a    *)
(* player record, hostId and guestId set, and currentTurn equal to hostId  *)
(* or guestId.  The code breaks it through rosters the index no longer     *)
(* covers (C26): a room of one player listed twice is started, and a       *)
(* member that unregistered stays in the roster of its match.              *)
C23_InProgressShape ==
  \A r \in RoomIds :
     (Live(r) /\ rooms[r].status = "in-progress") =>
        /\ Len(Roster(r)) = 2
        /\ Distinct(Roster(r))
        /\ \A p \in Occupants(r) : Has(players, p)
        /\ rooms[r].hostId # Null
        /\ rooms[r].guestId # Null
        /\ rooms[r].gameData.currentTurn \in {rooms[r].hostId, rooms[r].guestId}

----------------------------------------------------------------------------
(* C24: while a room is in-progress no step raises the health or the mana  *)
(* of an occupant, and they change only by a processGameAction.  The code  *)
(* breaks it: setPlayerCharacter is accepted during a match and sets the   *)
(* caller's health and mana to the character's full values.                *)
C24_NoHealingInMatch ==
  [][\A r \in RoomIds :
       (Live(r) /\ rooms[r].status = "in-progress" /\ Has(rooms', r)
          /\ rooms'[r].status \in {"in-progress", "completed"}) =>
          \A p \in Occupants(r) :
             (Has(players, p) /\ Has(players', p)) =>
                /\ players'[p].health <= players[p].health
                /\ players'[p].mana <= players[p].mana
                /\ (players'[p].health # players[p].health
                      \/ players'[p].mana # players[p].mana) => ByAction]_vars

----------------------------------------------------------------------------
(* C25: a setPlayerReady or setPlayerCharacter that fails with not-in-room *)
(* or room-not-found leaves the player's readiness flag, character, health *)
(* and mana as they were.  The code breaks it: both apply updatePlayer     *)
(* before they look up the room.                                           *)
C25_FailedUpdateChangesNothing ==
  \A p \in Players :
     Has(players, p) =>
        \A ret \in {setPlayerReady(Cur, p, b) : b \in BOOLEAN}
                      \cup {setPlayerCharacter(Cur, p, c) : c \in CharIds} :
           ret.res.error \in {"Player not in a room", "Room not found"} =>
              /\ ret.S.players[p].isReady = players[p].isReady
              /\ ret.S.players[p].character = players[p].character
              /\ ret.S.players[p].health = players[p].health
              /\ ret.S.players[p].mana = players[p].mana

----------------------------------------------------------------------------
(* C26: removePlayerFromRoom(p, r) for a player that is not in the roster  *)
(* of the live room r changes nothing: roster, host, guest, status and     *)
(* winner of r are as before and the index entry of p is kept.  The code   *)
(* deletes the index entry of p whatever the roster holds, and completes r *)
(* when it is in-progress.                                                 *)
C26_RemoveOfNonMember ==
  \A p \in Players, r \in RoomIds :
     (Live(r) /\ ~Contains(Roster(r), p)) =>
        LET ret == removePlayerFromRoom(Cur, p, r)
        IN /\ Has(ret.S.rooms, r)
           /\ ret.S.rooms[r].players = rooms[r].players
           /\ ret.S.rooms[r].hostId = rooms[r].hostId
           /\ ret.S.rooms[r].guestId = rooms[r].guestId
           /\ ret.S.rooms[r].status = rooms[r].status
           /\ ret.S.rooms[r].gameData.winner = rooms[r].gameData.winner
           /\ Get(ret.S.playerToRoom, p) = Get(playerToRoom, p)

====
